---- MODULE Spec2Model ----
(***************************************************************************)
(* A model of code_guardian: CodeAnalyzer (analyzer.py) and                *)
(* BugPatternDetector (bug_pattern_detector.py).                           *)
(*                                                                         *)
(* A source text is represented by what the two classes read of it: the    *)
(* outcome of ast.parse (a tree, or the exception raised), the number of   *)
(* newlines, and the match counts of the three JavaScript regexes.  A tree *)
(* is a sequence of nodes numbered in source (pre-order) order, node 1     *)
(* being the Module; every node class that no isinstance test of the code  *)
(* names is the type "Other".  Strings that the code builds are sequences  *)
(* of pieces, the empty string being <<>>.                                 *)
(***************************************************************************)
EXTENDS Integers, Sequences, FiniteSets, TLC

VARIABLES
    code,        \* the source text handed to the call under way / just made
    ext,         \* the file extension handed with it
    result,      \* outcome of the last CodeAnalyzer._analyze_code call
    patterns,    \* BugPatternDetector.patterns: a reference into heap
    heap,        \* the list objects created so far, by reference
    calls,       \* detect calls completed on the instance, oldest first
    pc,          \* per thread: position inside detect
    tcode,       \* per thread: the code argument of its detect call
    todo,        \* per thread: findings its rule loops have still to append
    ret,         \* per thread: the reference detect returned
    listing,     \* directory entries under dir_path, in rglob order
    extensions,  \* the extensions argument of analyze_directory
    results      \* what analyze_directory returned

vars == <<code, ext, result, patterns, heap, calls, pc, tcode, todo, ret,
          listing, extensions, results>>

---------------------------------------------------------------------------
(* Bounds *)

\* non-root nodes of the trees the metric and import checks range over
MaxNodes == 3
\* non-root nodes of the trees the detector checks range over
MaxRuleNodes == 2
\* non-root nodes of the trees of a detector session / of concurrent calls
MaxSessionNodes == 1
\* detect calls made one after the other on one instance
MaxCalls == 3
\* threads that call detect on one instance at the same time
NumThreads == 2
\* directory entries under the scanned root
MaxFiles == 2
\* entries of the extensions argument of analyze_directory
MaxExtensions == 2

---------------------------------------------------------------------------
(* Syntax trees *)

\* An optional string: ImportFrom.module is None for "from . import X".
None == [none |-> TRUE, str |-> <<>>]
Some(str) == [none |-> FALSE, str |-> str]

\* A node carries the attributes the code reads: FunctionDef.name,
\* arguments.defaults / kw_defaults (the class of each default expression),
\* ExceptHandler.type, ImportFrom.module, the alias names of an import.
Node(type, name, defaults, kw_defaults, exc_type, module, names) ==
    [type |-> type, parent |-> 0, name |-> name, defaults |-> defaults,
     kw_defaults |-> kw_defaults, exc_type |-> exc_type, module |-> module,
     names |-> names]

Plain(type) == Node(type, "", <<>>, <<>>, "", None, <<>>)

Module == Plain("Module")

\* Node types that hold no statement or expression of interest below them.
LeafTypes == {"Import", "ImportFrom"}

Indices(n) == [i \in 1..n |-> i]

\* ast.iter_child_nodes: the children of node i, in field (source) order.
iter_child_nodes(tree, i) ==
    SelectSeq(Indices(Len(tree)), LAMBDA j : tree[j].parent = i)

\* ast.walk: breadth-first, a deque of nodes to visit.
RECURSIVE walk_loop(_, _, _)
walk_loop(tree, queue, out) ==
    IF queue = <<>> THEN out
    ELSE walk_loop(tree, Tail(queue) \o iter_child_nodes(tree, Head(queue)),
                   Append(out, Head(queue)))

walk(tree) == walk_loop(tree, <<1>>, <<>>)

\* The ancestors-or-self of node i in a vector of parents: where the node
\* that follows i in source order can be attached.
RECURSIVE RightPath(_, _)
RightPath(parents, i) ==
    IF i = 0 THEN {} ELSE {i} \cup RightPath(parents, parents[i])

\* The parent vectors of the trees of n nodes below the Module.
RECURSIVE Shapes(_)
Shapes(n) ==
    IF n = 0 THEN { <<0>> }
    ELSE UNION { { Append(s, p) : p \in RightPath(s, Len(s)) } :
                 s \in Shapes(n - 1) }

\* The tree of a parent vector and the nodes to put below the Module.
Build(shape, nodes) ==
    [i \in 1..Len(shape) |->
        IF i = 1 THEN Module ELSE [nodes[i - 1] EXCEPT !.parent = shape[i]]]

\* An import statement holds no statement; a BoolOp has two operands or more.
WellFormed(tree) ==
    \A i \in 1..Len(tree) :
        /\ tree[i].type \in LeafTypes => iter_child_nodes(tree, i) = <<>>
        /\ tree[i].type = "BoolOp" => Len(iter_child_nodes(tree, i)) >= 2

---------------------------------------------------------------------------
(* Source texts *)

\* Exception classes ast.parse raises, with their base classes.
Bases(exc) ==
    CASE exc = "SyntaxError" -> {"SyntaxError", "Exception"}
      [] exc = "IndentationError" ->
            {"IndentationError", "SyntaxError", "Exception"}
      [] exc = "MemoryError" -> {"MemoryError", "Exception"}
      [] exc = "RecursionError" ->
            {"RecursionError", "RuntimeError", "Exception"}
      [] exc = "UnicodeEncodeError" ->
            {"UnicodeEncodeError", "UnicodeError", "ValueError", "Exception"}
      [] OTHER -> {exc, "OSError", "Exception"}

isinstance(exc, class) == class \in Bases(exc)

Text(parse, tree, msg, newlines, js) ==
    [parse |-> parse, tree |-> tree, msg |-> msg, newlines |-> newlines,
     js |-> js]

NoJs == [functions |-> 0, arrows |-> 0, classes |-> 0]

\* A text that parses to tree t: one line per node.
Parsed(t) == Text("ok", t, "", Len(t) - 1, NoJs)

\* Texts on which ast.parse raises: "def f(:", a body indented with a tab
\* after spaces, "lambda:" * 10000 + ")", "a" + ".b" * 100000, a lone
\* surrogate in a string literal.
Unparsed ==
    { Text("SyntaxError", <<>>, "invalid syntax", 0, NoJs),
      Text("IndentationError", <<>>, "unexpected indent", 1, NoJs),
      Text("MemoryError", <<>>, "", 0, NoJs),
      Text("RecursionError", <<>>,
           "maximum recursion depth exceeded during ast construction", 0, NoJs),
      Text("UnicodeEncodeError", <<>>, "surrogates not allowed", 0, NoJs) }

\* Texts told apart by the regexes of _analyze_javascript only.
JsTexts ==
    { Text("SyntaxError", <<>>, "invalid syntax", n,
           [functions |-> f, arrows |-> a, classes |-> c]) :
        n \in 0..1, f \in 0..1, a \in 0..1, c \in 0..1 }

Extensions == {".py", ".js", ".ts", ".java", ""}

---------------------------------------------------------------------------
(* CodeAnalyzer *)

\* What a call hands back: the value returned, or the exception that left it.
Returned(val) == [exc |-> "None", val |-> val]
Raised(exc) == [exc |-> exc, val |-> <<>>]
NoCall == [exc |-> "NoCall", val |-> <<>>]

\* dict.update: the keys of u replace or extend those of d.
update(d, u) ==
    [k \in (DOMAIN d) \cup (DOMAIN u) |-> IF k \in DOMAIN u THEN u[k] ELSE d[k]]

BranchTypes == {"If", "While", "For", "ExceptHandler"}

\* complexity += len(node.values) in the place of len(node.values) - 1
RECURSIVE complexity_loop_operands(_, _, _)
complexity_loop_operands(tree, order, complexity) ==
    IF order = <<>> THEN complexity
    ELSE LET node == tree[Head(order)]
             values == iter_child_nodes(tree, Head(order))
         IN  complexity_loop_operands(tree, Tail(order),
                 IF node.type \in BranchTypes THEN complexity + 1
                 ELSE IF node.type = "BoolOp"
                      THEN complexity + Len(values)
                      ELSE complexity)

RECURSIVE complexity_loop(_, _, _)
complexity_loop(tree, order, complexity) ==
    IF order = <<>> THEN complexity
    ELSE LET node == tree[Head(order)]
             values == iter_child_nodes(tree, Head(order))
         IN  complexity_loop(tree, Tail(order),
                 IF node.type \in BranchTypes THEN complexity + 1
                 ELSE IF node.type = "BoolOp"
                      THEN complexity + (Len(values) - 1)
                      ELSE complexity)

_calculate_complexity(tree) == complexity_loop(tree, walk(tree), 1)

_count_functions(tree) ==
    Len(SelectSeq(walk(tree), LAMBDA i : tree[i].type = "FunctionDef"))

_count_classes(tree) ==
    Len(SelectSeq(walk(tree), LAMBDA i : tree[i].type = "ClassDef"))

\* `node.module or ''`
module_or_empty(module) ==
    IF module.none \/ module.str = <<>> THEN <<>> ELSE module.str

\* f"{module}.{name.name}"
qualified(module, name) == module \o <<".">> \o name

RECURSIVE names_loop(_, _, _)
names_loop(node, names, imports) ==
    IF names = <<>> THEN imports
    ELSE names_loop(node, Tail(names),
             Append(imports,
                    IF node.type = "Import" THEN Head(names)
                    ELSE qualified(module_or_empty(node.module), Head(names))))

RECURSIVE imports_loop(_, _, _)
imports_loop(tree, order, imports) ==
    IF order = <<>> THEN imports
    ELSE LET node == tree[Head(order)]
         IN  imports_loop(tree, Tail(order),
                 IF node.type \in {"Import", "ImportFrom"}
                 THEN names_loop(node, node.names, imports)
                 ELSE imports)

_extract_imports(tree) == imports_loop(tree, walk(tree), <<>>)

\* ast.parse(code): the tree, or the exception raised.
ast_parse(text) ==
    IF text.parse = "ok" THEN Returned(text.tree) ELSE Raised(text.parse)

_analyze_python(text) ==
    LET parsed == ast_parse(text)
    IN  IF parsed.exc = "None"
        THEN Returned([complexity |-> _calculate_complexity(parsed.val),
                       functions |-> _count_functions(parsed.val),
                       classes |-> _count_classes(parsed.val),
                       imports |-> _extract_imports(parsed.val)])
        ELSE IF isinstance(parsed.exc, "SyntaxError")
             THEN Returned([syntax_error |-> text.msg])
             ELSE Raised(parsed.exc)

_analyze_javascript(text) ==
    Returned([functions |-> text.js.functions,
              arrow_functions |-> text.js.arrows,
              classes |-> text.js.classes])

_analyze_code(text, file_extension) ==
    LET base == [lines_of_code |-> text.newlines + 1,
                 file_type |-> file_extension,
                 issues |-> <<>>,
                 metrics |-> <<>>]
        part == IF file_extension = ".py" THEN _analyze_python(text)
                ELSE IF file_extension \in {".js", ".ts"}
                     THEN _analyze_javascript(text)
                     ELSE Returned(<<>>)
    IN  IF part.exc = "None" THEN Returned(update(base, part.val))
        ELSE Raised(part.exc)

---------------------------------------------------------------------------
(* BugPatternDetector *)

\* The instance: self.patterns refers to a list object; lists live in the
\* heap and are named by their position in it.
Detector(ref, lists) == [patterns |-> ref, heap |-> lists]

\* __init__: self.patterns = []
NewDetector == Detector(1, << <<>> >>)

\* self.patterns.clear() in the place of self.patterns = []
reset_patterns_in_place(d) ==
    Detector(d.patterns, [d.heap EXCEPT ![d.patterns] = <<>>])

\* self.patterns = []  -- a new list object, bound to the attribute
reset_patterns(d) == Detector(Len(d.heap) + 1, Append(d.heap, <<>>))

\* self.patterns.append(finding)
append_pattern(d, finding) ==
    Detector(d.patterns,
             [d.heap EXCEPT ![d.patterns] = Append(@, finding)])

BareExcept ==
    [type |-> "Bare Except Clause", severity |-> "MEDIUM",
     description |->
        "Bare except catches all exceptions, including system exits"]

MutableDefault(function) ==
    [type |-> "Mutable Default Argument", severity |-> "HIGH",
     description |->
        "Mutable default arguments can cause unexpected behavior",
     function |-> function]

RECURSIVE bare_except_loop(_, _, _)
bare_except_loop(d, tree, order) ==
    IF order = <<>> THEN d
    ELSE LET node == tree[Head(order)]
         IN  bare_except_loop(
                 IF node.type = "ExceptHandler" /\ node.exc_type = "None"
                 THEN append_pattern(d, BareExcept) ELSE d,
                 tree, Tail(order))

_check_bare_except(d, tree) == bare_except_loop(d, tree, walk(tree))

MutableTypes == {"List", "Dict", "Set"}

\* for arg in node.args.defaults
RECURSIVE defaults_loop(_, _, _)
defaults_loop(d, node, defaults) ==
    IF defaults = <<>> THEN d
    ELSE defaults_loop(
             IF Head(defaults) \in MutableTypes
             THEN append_pattern(d, MutableDefault(node.name)) ELSE d,
             node, Tail(defaults))

RECURSIVE mutable_defaults_loop(_, _, _)
mutable_defaults_loop(d, tree, order) ==
    IF order = <<>> THEN d
    ELSE LET node == tree[Head(order)]
         IN  mutable_defaults_loop(
                 IF node.type = "FunctionDef"
                 THEN defaults_loop(d, node, node.defaults) ELSE d,
                 tree, Tail(order))

_check_mutable_defaults(d, tree) ==
    mutable_defaults_loop(d, tree, walk(tree))

\* pass
_check_unused_variables(d, tree) == d

\* The instance after the call, and the exception that left it, if any.
_detect_python_patterns(d, text) ==
    LET parsed == ast_parse(text)
    IN  IF parsed.exc = "None"
        THEN [exc |-> "None",
              det |-> _check_unused_variables(
                          _check_mutable_defaults(
                              _check_bare_except(d, parsed.val), parsed.val),
                          parsed.val)]
        ELSE IF isinstance(parsed.exc, "SyntaxError")
             THEN [exc |-> "None", det |-> d]
             ELSE [exc |-> parsed.exc, det |-> d]

\* detect(code, file_type): the instance after the call, the exception that
\* left it or "None", and the reference returned.
detect(d, text, file_type) ==
    LET d1 == reset_patterns(d)
        run == IF file_type = ".py" THEN _detect_python_patterns(d1, text)
               ELSE [exc |-> "None", det |-> d1]
    IN  [exc |-> run.exc, det |-> run.det, ref |-> run.det.patterns]

\* The list a single detect call on a new instance returns.
Alone(text, file_type) ==
    LET call == detect(NewDetector, text, file_type)
    IN  call.det.heap[call.ref]

---------------------------------------------------------------------------
(* Inputs of the metric and import checks *)

MetricTemplates ==
    { Plain("FunctionDef"), Plain("AsyncFunctionDef"), Plain("ClassDef"),
      Plain("If"), Plain("While"), Plain("For"), Plain("ExceptHandler"),
      Plain("BoolOp"), Plain("Other") }

ImportNode(names) == Node("Import", "", <<>>, <<>>, "", None, names)
ImportFromNode(module, names) ==
    Node("ImportFrom", "", <<>>, <<>>, "", module, names)

\* import a / import b, c / from m import a / from . import b /
\* from m import c, a, and the statements that can hold them
ImportTemplates ==
    { ImportNode(<< <<"a">> >>), ImportNode(<< <<"b">>, <<"c">> >>),
      ImportFromNode(Some(<<"m">>), << <<"a">> >>),
      ImportFromNode(None, << <<"b">> >>),
      ImportFromNode(Some(<<"m">>), << <<"c">>, <<"a">> >>),
      Plain("FunctionDef"), Plain("If") }

FunctionNode(type, name, defaults, kw_defaults) ==
    Node(type, name, defaults, kw_defaults, "", None, <<>>)
HandlerNode(exc_type) == Node("ExceptHandler", "", <<>>, <<>>, exc_type, None, <<>>)

\* def f(a=[]) / def g(a=1, b={}) / def h(*, a={1}) / def k(a=list()) /
\* async def af(a=[]) / except: / except E: / class
RuleTemplates ==
    { FunctionNode("FunctionDef", "f", <<"List">>, <<>>),
      FunctionNode("FunctionDef", "g", <<"Constant", "Dict">>, <<>>),
      FunctionNode("FunctionDef", "h", <<>>, <<"Set">>),
      FunctionNode("FunctionDef", "k", <<"Call">>, <<>>),
      FunctionNode("AsyncFunctionDef", "af", <<"List">>, <<>>),
      HandlerNode("None"), HandlerNode("Name"), Plain("ClassDef") }

OtherInputs ==
    (Unparsed \X {".py"}) \cup (JsTexts \X (Extensions \ {".py"}))

NoThreads ==
    /\ pc = <<>>
    /\ tcode = <<>>
    /\ todo = <<>>
    /\ ret = <<>>

NoDirectory ==
    /\ listing = <<>>
    /\ extensions = <<>>
    /\ results = NoCall

\* A new BugPatternDetector, no call made.
NewInstance ==
    /\ patterns = NewDetector.patterns
    /\ heap = NewDetector.heap
    /\ calls = <<>>

\* code is a text that parses to a tree of at most n nodes below the
\* Module, each from templates.
ParsedInput(n, templates) ==
    \E k \in 0..n : \E shape \in Shapes(k) : \E nodes \in [1..k -> templates] :
        LET tree == Build(shape, nodes)
        IN  WellFormed(tree) /\ code = Parsed(tree)

InitAnalyze(n, templates) ==
    /\ \/ ParsedInput(n, templates) /\ ext = ".py"
       \/ \E in \in OtherInputs : code = in[1] /\ ext = in[2]
    /\ result = NoCall
    /\ NewInstance
    /\ NoThreads
    /\ NoDirectory

\* One call of CodeAnalyzer._analyze_code(code, ext).
AnalyzeCode ==
    /\ result.exc = "NoCall"
    /\ result' = _analyze_code(code, ext)
    /\ UNCHANGED <<code, ext, patterns, heap, calls, pc, tcode, todo, ret,
                   listing, extensions, results>>

\* What is kept of a completed detect call: the exception that left it or
\* "None", the reference returned, and the list it referred to on return.
Completed(call) ==
    [exc |-> call.exc,
     ref |-> IF call.exc = "None" THEN call.ref ELSE 0,
     snap |-> IF call.exc = "None" THEN call.det.heap[call.ref] ELSE <<>>]

\* One call of BugPatternDetector.detect(code, ext) on a new instance.
DetectCode ==
    /\ calls = <<>>
    /\ LET call == detect(Detector(patterns, heap), code, ext)
       IN  /\ patterns' = call.det.patterns
           /\ heap' = call.det.heap
           /\ calls' = Append(calls, Completed(call))
    /\ UNCHANGED <<code, ext, result, pc, tcode, todo, ret,
                   listing, extensions, results>>

Next == AnalyzeCode \/ DetectCode

Init == InitAnalyze(MaxNodes, MetricTemplates)
Spec == Init /\ [][Next]_vars

InitImports == InitAnalyze(MaxNodes, ImportTemplates)
ImportSpec == InitImports /\ [][Next]_vars

InitRules == InitAnalyze(MaxRuleNodes, RuleTemplates)
RuleSpec == InitRules /\ [][Next]_vars

---------------------------------------------------------------------------
(* One instance, calls one after the other *)

\* def f(a=[]) / except: / a statement of no interest
SessionTemplates ==
    { FunctionNode("FunctionDef", "f", <<"List">>, <<>>),
      HandlerNode("None"), Plain("Other") }

TextsOf(n, templates) ==
    UNION { UNION { { Parsed(Build(shape, nodes)) :
                        nodes \in [1..k -> templates] } :
                    shape \in Shapes(k) } :
            k \in 0..n }

SessionInputs ==
    ((TextsOf(MaxSessionNodes, SessionTemplates)
        \cup { t \in Unparsed : t.parse \in {"SyntaxError", "MemoryError"} })
      \X {".py"})
    \cup { <<Parsed(<<Module>>), ".java">> }

NoText == Text("none", <<>>, "", 0, NoJs)

InitSession ==
    /\ code = NoText
    /\ ext = ""
    /\ result = NoCall
    /\ NewInstance
    /\ NoThreads
    /\ NoDirectory

\* The next call of detect on the instance, with any input.
SessionDetect ==
    /\ Len(calls) < MaxCalls
    /\ \E in \in SessionInputs :
          LET call == detect(Detector(patterns, heap), in[1], in[2])
          IN  /\ code' = in[1]
              /\ ext' = in[2]
              /\ patterns' = call.det.patterns
              /\ heap' = call.det.heap
              /\ calls' = Append(calls, Completed(call))
    /\ UNCHANGED <<result, pc, tcode, todo, ret, listing, extensions, results>>

NextSession == SessionDetect
SessionSpec == InitSession /\ [][NextSession]_vars

---------------------------------------------------------------------------
(* One instance, calls at the same time *)

Threads == 1..NumThreads

ThreadTexts ==
    TextsOf(MaxSessionNodes, SessionTemplates)
        \cup { t \in Unparsed : t.parse \in {"SyntaxError", "MemoryError"} }

InitThreads ==
    /\ code = NoText
    /\ ext = ".py"
    /\ result = NoCall
    /\ NewInstance
    /\ tcode \in [Threads -> ThreadTexts]
    /\ pc = [t \in Threads |-> "detect"]
    /\ todo = [t \in Threads |-> <<>>]
    /\ ret = [t \in Threads |-> 0]
    /\ NoDirectory

\* detect, line 16: self.patterns = []
ThreadReset(t) ==
    /\ pc[t] = "detect"
    /\ LET d == reset_patterns(Detector(patterns, heap))
       IN  patterns' = d.patterns /\ heap' = d.heap
    /\ pc' = [pc EXCEPT ![t] = "parse"]
    /\ UNCHANGED <<code, ext, result, calls, tcode, todo, ret,
                   listing, extensions, results>>

\* _detect_python_patterns, line 26: ast.parse.  The tree belongs to the
\* call alone, so the findings its loops go on to append are known here.
ThreadParse(t) ==
    /\ pc[t] = "parse"
    /\ LET parsed == ast_parse(tcode[t])
       IN  IF parsed.exc = "None"
           THEN /\ todo' = [todo EXCEPT ![t] = Alone(tcode[t], ext)]
                /\ pc' = [pc EXCEPT ![t] = "check"]
           ELSE IF isinstance(parsed.exc, "SyntaxError")
                THEN /\ todo' = todo
                     /\ pc' = [pc EXCEPT ![t] = "check"]
                ELSE /\ todo' = todo
                     /\ pc' = [pc EXCEPT ![t] = "raised"]
    /\ UNCHANGED <<code, ext, result, patterns, heap, calls, tcode, ret,
                   listing, extensions, results>>

\* lines 38 and 50: self.patterns.append(...)
ThreadAppend(t) ==
    /\ pc[t] = "check"
    /\ todo[t] # <<>>
    /\ LET d == append_pattern(Detector(patterns, heap), Head(todo[t]))
       IN  patterns' = d.patterns /\ heap' = d.heap
    /\ todo' = [todo EXCEPT ![t] = Tail(@)]
    /\ UNCHANGED <<code, ext, result, calls, pc, tcode, ret,
                   listing, extensions, results>>

\* detect, line 21: return self.patterns
ThreadReturn(t) ==
    /\ pc[t] = "check"
    /\ todo[t] = <<>>
    /\ ret' = [ret EXCEPT ![t] = patterns]
    /\ pc' = [pc EXCEPT ![t] = "done"]
    /\ UNCHANGED <<code, ext, result, patterns, heap, calls, tcode, todo,
                   listing, extensions, results>>

NextThreads ==
    \E t \in Threads :
        ThreadReset(t) \/ ThreadParse(t) \/ ThreadAppend(t) \/ ThreadReturn(t)

ThreadSpec == InitThreads /\ [][NextThreads]_vars

---------------------------------------------------------------------------
(* analyze_directory *)

\* An entry below dir_path: its name as the stem and the dotted parts that
\* follow, whether it is a file or a directory, what happens when it is
\* opened and read, and its text.
Entry(name, kind, state, text) ==
    [name |-> name, kind |-> kind, state |-> state, text |-> text]

Entries ==
    { Entry(<<"a", ".py">>, "file", "ok",
            Parsed(Build(<<0, 1>>, <<Plain("If")>>))),
      Entry(<<"b", ".py">>, "file", "ok",
            Text("SyntaxError", <<>>, "invalid syntax", 0, NoJs)),
      Entry(<<"c", ".py">>, "file", "FileNotFoundError", Parsed(<<Module>>)),
      Entry(<<"d", ".py">>, "file", "PermissionError", Parsed(<<Module>>)),
      Entry(<<"e", ".py">>, "file", "UnicodeDecodeError", Parsed(<<Module>>)),
      Entry(<<"m", ".py">>, "file", "ok", Text("MemoryError", <<>>, "", 0, NoJs)),
      Entry(<<"pkg", ".py">>, "dir", "IsADirectoryError", Parsed(<<Module>>)),
      Entry(<<"types", ".d", ".ts">>, "file", "ok",
            Text("SyntaxError", <<>>, "invalid syntax", 0,
                 [functions |-> 1, arrows |-> 0, classes |-> 0])),
      Entry(<<"x", ".java">>, "file", "ok",
            Text("SyntaxError", <<>>, "invalid syntax", 2, NoJs)) }

ExtensionPool == { <<".py">>, <<".ts">>, <<".d", ".ts">>, <<".java">> }

Distinct(seq) == \A i, j \in 1..Len(seq) : seq[i] = seq[j] => i = j

SeqsUpTo(n, S) == UNION { [1..k -> S] : k \in 0..n }

\* Path.suffix: the last dotted part of the name, '' when there is none.
suffix(name) == IF Len(name) > 1 THEN name[Len(name)] ELSE ""

\* The name matches f'*{ext}'.
matches(name, extension) ==
    /\ Len(extension) <= Len(name)
    /\ \A k \in 1..Len(extension) :
          name[Len(name) - Len(extension) + k] = extension[k]

\* Path.rglob(f'*{ext}'), in the order of the listing.
rglob(entries, extension) ==
    SelectSeq(entries, LAMBDA e : matches(e.name, extension))

analyze_file(entry) ==
    LET done == IF entry.state # "ok" THEN Raised(entry.state)
                ELSE _analyze_code(entry.text, suffix(entry.name))
    IN  IF done.exc = "None" THEN done
        ELSE IF isinstance(done.exc, "Exception")
             THEN Returned([error |-> done.exc])
             ELSE done

\* for file_path in path.rglob(...)
RECURSIVE files_loop(_, _)
files_loop(found, out) ==
    IF found = <<>> \/ out.exc # "None" THEN out
    ELSE LET analyzed == analyze_file(Head(found))
         IN  files_loop(Tail(found),
                 IF analyzed.exc # "None" THEN Raised(analyzed.exc)
                 ELSE Returned(Append(out.val,
                          update(analyzed.val,
                                 [file_path |-> Head(found).name]))))

\* for ext in extensions
RECURSIVE extensions_loop(_, _, _)
extensions_loop(entries, exts, out) ==
    IF exts = <<>> \/ out.exc # "None" THEN out
    ELSE extensions_loop(entries, Tail(exts),
                         files_loop(rglob(entries, Head(exts)), out))

analyze_directory(entries, exts) ==
    extensions_loop(entries, exts, Returned(<<>>))

InitDirectory ==
    /\ code = NoText
    /\ ext = ""
    /\ result = NoCall
    /\ NewInstance
    /\ NoThreads
    /\ listing \in { l \in SeqsUpTo(MaxFiles, Entries) : Distinct(l) }
    /\ extensions \in
          { x \in SeqsUpTo(MaxExtensions, ExtensionPool) : x # <<>> /\ Distinct(x) }
    /\ results = NoCall

AnalyzeDirectory ==
    /\ results.exc = "NoCall"
    /\ results' = analyze_directory(listing, extensions)
    /\ UNCHANGED <<code, ext, result, patterns, heap, calls, pc, tcode, todo,
                   ret, listing, extensions>>

NextDirectory == AnalyzeDirectory
DirectorySpec == InitDirectory /\ [][NextDirectory]_vars

---------------------------------------------------------------------------
(* Properties of a single call *)

Analyzed == result.exc = "None"
ParsedPython == ext = ".py" /\ code.parse = "ok"
NodesOf(tree) == 1..Len(tree)

RECURSIVE Sum(_, _)
Sum(f, S) ==
    IF S = {} THEN 0
    ELSE LET x == CHOOSE y \in S : TRUE IN f[x] + Sum(f, S \ {x})

NumericKeys == {"complexity", "functions", "classes", "imports"}
BaseKeys == {"lines_of_code", "file_type", "issues", "metrics"}
SupportedExtensions == {".py", ".js", ".ts"}

\* C1: for a Python text that fails to parse, _analyze_code returns a result
\* with a syntax_error entry and none of the numeric metrics, and detect
\* returns an empty list; neither raises.
C1_ParseFailureContained ==
    (ext = ".py" /\ code.parse # "ok") =>
        /\ result.exc # "NoCall" =>
              /\ result.exc = "None"
              /\ "syntax_error" \in DOMAIN result.val
              /\ NumericKeys \cap DOMAIN result.val = {}
        /\ calls # <<>> =>
              /\ calls[1].exc = "None"
              /\ calls[1].snap = <<>>

\* C5: for an extension without analysis support, the result carries an
\* explicit "not analyzed" marker: the _analyze_code result holds more than
\* the entries every result holds, and the detect result differs from that
\* of a supported file found clean.
C5_UnsupportedIsMarked ==
    ext \notin SupportedExtensions =>
        /\ Analyzed => DOMAIN result.val # BaseKeys
        /\ calls # <<>> =>
              /\ calls[1].exc = "None"
              /\ calls[1].snap # Alone(Parsed(<<Module>>), ".py")

MutableIn(defaults) ==
    Len(SelectSeq(defaults, LAMBDA x : x \in MutableTypes))

\* The parameters with a list, dict or set literal default of the functions
\* named name.
MutableParameters(tree, name) ==
    Sum([i \in NodesOf(tree) |->
            IF /\ tree[i].type \in {"FunctionDef", "AsyncFunctionDef"}
               /\ tree[i].name = name
            THEN MutableIn(tree[i].defaults) + MutableIn(tree[i].kw_defaults)
            ELSE 0],
        NodesOf(tree))

FunctionNames == {"f", "g", "h", "k", "af"}

\* C6: for a parseable Python text, detect emits one "Mutable Default
\* Argument" finding of severity HIGH naming the function for every
\* parameter whose default is a list, dict or set literal, and no other.
C6_MutableDefaults ==
    (ParsedPython /\ calls # <<>>) =>
        /\ calls[1].exc = "None"
        /\ \A name \in FunctionNames :
              Len(SelectSeq(calls[1].snap,
                            LAMBDA x : x = MutableDefault(name)))
                 = MutableParameters(code.tree, name)
        /\ \A k \in 1..Len(calls[1].snap) :
              calls[1].snap[k].type = "Mutable Default Argument" =>
                 /\ calls[1].snap[k].severity = "HIGH"
                 /\ calls[1].snap[k].function \in FunctionNames

Operands(tree, i) == { j \in NodesOf(tree) : tree[j].parent = i }

\* 1 + the branch nodes + N - 1 for every BoolOp of N operands, counted over
\* the nodes of the tree.
McCabe(tree) ==
    1 + Cardinality({ i \in NodesOf(tree) : tree[i].type \in BranchTypes })
      + Sum([i \in NodesOf(tree) |->
                IF tree[i].type = "BoolOp"
                THEN Cardinality(Operands(tree, i)) - 1 ELSE 0],
            NodesOf(tree))

ImportedName(node, name) ==
    IF node.type = "Import" THEN name
    ELSE IF node.module.none THEN name
         ELSE node.module.str \o <<".">> \o name

\* C8: the import list holds X for "import X", M.X for "from M import X",
\* and X alone when the module is absent ("from . import X").
C8_QualifiedNames ==
    (ParsedPython /\ Analyzed) =>
        \A k \in 1..Len(result.val.imports) :
            \E i \in NodesOf(code.tree) :
                /\ code.tree[i].type \in {"Import", "ImportFrom"}
                /\ \E n \in 1..Len(code.tree[i].names) :
                      result.val.imports[k]
                          = ImportedName(code.tree[i], code.tree[i].names[n])

ImportCount(tree) ==
    Sum([i \in NodesOf(tree) |->
            IF tree[i].type \in {"Import", "ImportFrom"}
            THEN Len(tree[i].names) ELSE 0],
        NodesOf(tree))

\* C9: with N imported names at any nesting depth, the import list has N
\* entries, in source order.
C9_SourceOrder ==
    (ParsedPython /\ Analyzed) =>
        /\ Len(result.val.imports) = ImportCount(code.tree)
        /\ result.val.imports
              = imports_loop(code.tree, Indices(Len(code.tree)), <<>>)

\* C10: functions is the number of function definitions (plain, method,
\* nested, async) and classes the number of class definitions anywhere in
\* the tree.
C10_DefinitionCounts ==
    (ParsedPython /\ Analyzed) =>
        /\ result.val.functions
              = Cardinality({ i \in NodesOf(code.tree) :
                    code.tree[i].type \in {"FunctionDef", "AsyncFunctionDef"} })
        /\ result.val.classes
              = Cardinality({ i \in NodesOf(code.tree) :
                    code.tree[i].type = "ClassDef" })

---------------------------------------------------------------------------
(* Properties of analyze_directory *)

Matching(entry) ==
    \E k \in 1..Len(extensions) : matches(entry.name, extensions[k])

\* The entry cannot be read, or is Python that does not parse.
Failing(entry) ==
    \/ entry.state # "ok"
    \/ suffix(entry.name) = ".py" /\ entry.text.parse # "ok"

ResultsFor(entry) ==
    { k \in 1..Len(results.val) : results.val[k].file_path = entry.name }

Without(seq, i) == [k \in 1..(Len(seq) - 1) |-> IF k < i THEN seq[k] ELSE seq[k + 1]]

\* C2: analyze_directory runs to the end and returns exactly one result,
\* carrying file_path, per file that matches one of the extensions; a file
\* that fails yields an error-carrying result for that file only, the other
\* results being what they are with the failing file absent.
C2_OneResultPerFile ==
    results.exc # "NoCall" =>
        /\ results.exc = "None"
        /\ \A k \in 1..Len(results.val) : "file_path" \in DOMAIN results.val[k]
        /\ \A i \in 1..Len(listing) :
              (listing[i].kind = "file" /\ Matching(listing[i])) =>
                  /\ Cardinality(ResultsFor(listing[i])) = 1
                  /\ Failing(listing[i]) =>
                        \A k \in ResultsFor(listing[i]) :
                            {"error", "syntax_error"} \cap DOMAIN results.val[k] # {}
        /\ \A i \in 1..Len(listing) :
              Failing(listing[i]) =>
                  analyze_directory(Without(listing, i), extensions).val
                     = SelectSeq(results.val,
                                 LAMBDA r : r.file_path # listing[i].name)

---------------------------------------------------------------------------
(* Properties of one instance used for several calls *)

\* C3: when detect calls on one instance interleave, each call returns
\* exactly the findings of its own input, the list it returns when run
\* alone.
C3_OwnFindings ==
    \A t \in DOMAIN pc :
        pc[t] = "done" => heap[ret[t]] = Alone(tcode[t], ext)

\* C4: after any sequence of earlier detect calls on the instance, a call
\* returns what it returns on a new instance, and the list an earlier call
\* returned is as it was on return.
C4_Repeatable ==
    /\ \A i \in 1..Len(calls) :
          calls[i].exc = "None" => heap[calls[i].ref] = calls[i].snap
    /\ calls # <<>> =>
          LET last == calls[Len(calls)]
              new == detect(NewDetector, code, ext)
          IN  /\ last.exc = new.exc
              /\ last.exc = "None" => heap[last.ref] = new.det.heap[new.ref]

\* Three calls have returned; the first two found different things, and
\* the third was made with the text of neither.
C4_Witness ==
    /\ Len(calls) = 3
    /\ \A i \in 1..3 : calls[i].exc = "None"
    /\ calls[1].snap # <<>>
    /\ calls[2].snap # <<>>
    /\ calls[1].snap # calls[2].snap
    /\ calls[3].snap = <<>>
    /\ code.parse = "ok" /\ ext = ".py"

====
